---- MODULE Spec2Model ----
(***************************************************************************)
(* CrossSimilarityMatrix (src/algorithms/highlevel/crosssimilaritymatrix   *)
(* .cpp): the batch algorithm, the streaming algorithm and the helper      *)
(* functions they share, as state machines.                                *)
(*                                                                         *)
(* A feature frame is a sequence of numbers, a feature sequence a sequence *)
(* of frames (C++ index i is TLA+ index i+1).  Real values are kept exact: *)
(* chroma bins are small naturals, and every comparison the code makes     *)
(* between Real values is made here between exact integers (the common     *)
(* denominators are stated where they occur).                              *)
(***************************************************************************)
EXTENDS Integers, Sequences, FiniteSets, TLC

VARIABLES
  \* parameters set by configure()
  tau, embedDimension, noti, oti, otiBinary, toBlocked, optimiseThreshold, kappa,
  \* toTimeEmbedding called on its own: argument and result
  inputArray, timeEmbedding,
  \* standard::CrossSimilarityMatrix: the two inputs and the result of compute()
  queryFeature, batchReference, result,
  \* streaming::CrossSimilarityMatrix
  referenceFeature,     \* _referenceFeature, the member process() rotates
  configuredReference,  \* parameter("referenceFeature") as given to configure()
  queryBuffer,          \* tokens waiting in input("queryFeature")
  acquireSize,          \* input("queryFeature").acquireSize()
  releaseSize,          \* input("queryFeature").releaseSize()
  shouldStop,           \* shouldStop(): upstream signalled end of stream
  csmOutput,            \* the tokens produced on output("csm"), in order
  fed,                  \* how many query frames upstream has produced so far
  call,                 \* what the last process() invocation saw and did
  \* optimalTranspositionIndex and chromaBinarySimMatrix called on their own:
  \* the arguments and the two results
  chromaA, chromaB, nshifts, otiIndex, simMatrix

cfgVars == <<tau, embedDimension, noti, oti, otiBinary, toBlocked, optimiseThreshold, kappa>>
embedVars == <<inputArray, timeEmbedding>>
batchVars == <<queryFeature, batchReference, result>>
streamVars == <<referenceFeature, configuredReference, queryBuffer, acquireSize,
                releaseSize, shouldStop, csmOutput, fed, call>>
helperVars == <<chromaA, chromaB, nshifts, otiIndex, simMatrix>>
vars == <<cfgVars, embedVars, batchVars, streamVars, helperVars>>

----------------------------------------------------------------------------
(* Bounds of the model *)

MaxFrames == 6
MaxEmbedDimension == 3
MaxTau == 2
MaxNoti == 1
MaxBatchFrames == 3
MaxStreamEmbedDimension == 2
MaxStreamFrames == 4
MaxStreamTau == 3
MaxSelfFrames == 3
MaxShifts == 4

\* chroma frames the inputs are drawn from (3 bins each)
Frames == {<<1, 0, 0>>, <<0, 1, 0>>}

\* the reference sequences given to the streaming algorithm: one to four frames,
\* shorter than, as long as and longer than the embedding window
References ==
  { << <<1, 0, 0>> >>,
    << <<1, 0, 0>>, <<0, 1, 0>> >>,
    << <<1, 0, 0>>, <<1, 0, 0>>, <<0, 1, 0>> >>,
    << <<0, 1, 0>>, <<1, 0, 0>>, <<1, 0, 0>>, <<0, 1, 0>> >> }

\* kappa as a fraction num/den of 1, so that kappa*100 is the percentile asked
Kappas == {[num |-> 1, den |-> 2]}

\* the sequences optimalTranspositionIndex and chromaBinarySimMatrix are called
\* on by themselves: one or two frames of 3 bins
HelperSequences ==
  { << <<1, 0, 0>> >>, << <<0, 1, 0>> >>, << <<0, 0, 1>> >>, << <<2, 1, 0>> >>,
    << <<1, 0, 0>>, <<0, 1, 0>> >>, << <<0, 0, 1>>, <<2, 1, 0>> >>,
    << <<0, 1, 2>>, <<0, 0, 1>> >>, << <<1, 1, 0>>, <<1, 0, 0>> >> }

\* the values of kappa and the frames of the self-similarity runs
SelfKappas ==
  {[num |-> 0, den |-> 1], [num |-> 1, den |-> 3], [num |-> 1, den |-> 2],
   [num |-> 1, den |-> 1]}
SelfFrames == {<<1, 0, 0>>, <<0, 1, 0>>, <<2, 1, 0>>}

RECURSIVE SeqsOfLen(_, _)
SeqsOfLen(S, n) ==
  IF n = 0 THEN {<<>>}
  ELSE {Append(s, x) : s \in SeqsOfLen(S, n - 1), x \in S}

SeqsUpTo(S, lo, hi) == UNION {SeqsOfLen(S, n) : n \in lo..hi}

\* no call made yet
NoEmbedding == [status |-> "none", frameSize |-> 0, wrapped |-> FALSE, rows |-> <<>>]
NoResult ==
  [status |-> "none", steps |-> <<>>, produced |-> FALSE, csm |-> <<>>,
   pdistances |-> <<>>, similarityX |-> <<>>, tSimilarityY |-> <<>>]
NoCall ==
  [status |-> "none", available |-> 0, acquire |-> 0, release |-> 0, stop |-> FALSE,
   retried |-> FALSE, acquired |-> 0, window |-> <<>>, copy |-> <<>>, padReads |-> <<>>,
   otiIdx |-> 0, refUsed |-> <<>>, emitted |-> 0, released |-> 0]

NoIndex == [status |-> "none", index |-> 0]
NoMatrix == [status |-> "none", shifts |-> <<>>, matrix |-> <<>>]

\* the parts of the state a specification does not use stay as they are here
HelperIdle ==
  /\ chromaA = <<>> /\ chromaB = <<>> /\ nshifts = 0
  /\ otiIndex = NoIndex /\ simMatrix = NoMatrix
EmbedIdle == inputArray = <<>> /\ timeEmbedding = NoEmbedding
BatchIdle == queryFeature = <<>> /\ batchReference = <<>> /\ result = NoResult
StreamIdle ==
  /\ referenceFeature = <<>> /\ configuredReference = <<>> /\ queryBuffer = <<>>
  /\ acquireSize = 0 /\ releaseSize = 0 /\ shouldStop = FALSE /\ csmOutput = <<>>
  /\ fed = 0 /\ call = NoCall

----------------------------------------------------------------------------
(* Library primitives the source calls *)

\* std::rotate(v.begin(), v.end() - k, v.end()): the last k elements come first.
\* The call is defined only for 0 <= k <= v.size().
rotate(v, k) ==
  SubSeq(v, Len(v) - k + 1, Len(v)) \o SubSeq(v, 1, Len(v) - k)

RECURSIVE SumTo(_, _, _)
SumTo(a, b, n) == IF n = 0 THEN 0 ELSE a[n] * b[n] + SumTo(a, b, n - 1)

\* essentia::dotProduct
dotProduct(a, b) == SumTo(a, b, Len(a))

\* essentia::argmax: C++ index of the first greatest element
argmax(v) ==
  CHOOSE i \in 0..(Len(v) - 1) :
    /\ \A j \in 0..(Len(v) - 1) : v[j + 1] <= v[i + 1]
    /\ \A j \in 0..(i - 1) : v[j + 1] < v[i + 1]

RECURSIVE ColumnSum(_, _, _)
ColumnSum(f, j, n) == IF n = 0 THEN 0 ELSE f[n][j] + ColumnSum(f, j, n - 1)

RECURSIVE SeqMax(_, _)
SeqMax(v, n) ==
  IF n = 1 THEN v[1]
  ELSE LET r == SeqMax(v, n - 1) IN IF v[n] > r THEN v[n] ELSE r

----------------------------------------------------------------------------
(* Helper functions of crosssimilaritymatrix.cpp *)

\* globalAverageChroma: the per-bin sums, divided by their greatest element by
\* essentia::normalize (not at all when that element is 0).  The quotient is
\* kept as numerators over one denominator.
globalAverageChroma(inputFeature) ==
  LET numbins == Len(inputFeature[1])
      sums == [j \in 1..numbins |-> ColumnSum(inputFeature, j, Len(inputFeature))]
      maxElement == SeqMax(sums, numbins)
  IN [num |-> sums, den |-> IF maxElement # 0 THEN maxElement ELSE 1]

\* optimalTranspositionIndex with the copy turned the other way:
\* std::rotate(begin, begin + i, end)
optimalTranspositionIndexLeft(A, B, shifts) ==
  LET globalChromaA == globalAverageChroma(A)
      globalChromaB == globalAverageChroma(B)
      valueAtShifts == [i \in 1..(shifts + 1) |->
                          dotProduct(globalChromaA.num,
                                     rotate(globalChromaB.num,
                                            (Len(globalChromaB.num) - (i - 1))
                                              % Len(globalChromaB.num)))]
  IN argmax(valueAtShifts)

\* optimalTranspositionIndex: every entry of valueAtShifts has the denominator
\* globalChromaA.den * globalChromaB.den, so the arg-max is that of the numerators.
optimalTranspositionIndex(A, B, shifts) ==
  LET globalChromaA == globalAverageChroma(A)
      globalChromaB == globalAverageChroma(B)
      valueAtShifts == [i \in 1..(shifts + 1) |->
                          dotProduct(globalChromaA.num, rotate(globalChromaB.num, i - 1))]
  IN argmax(valueAtShifts)

RECURSIVE Concat(_, _, _, _)
\* inputArray[start], inputArray[start+step], ... (count rows) joined end to end
Concat(array, start, step, count) ==
  IF count = 0 THEN <<>>
  ELSE array[start] \o Concat(array, start + step, step, count - 1)

\* toTimeEmbedding with the window counted one hop short (m-1 hops span m rows)
toTimeEmbeddingOneHopShort(array, m, t) ==
  IF m = 1 THEN [status |-> "ok", frameSize |-> Len(array), wrapped |-> FALSE, rows |-> array]
  ELSE
    LET frameSize == Len(array) - (m - 1) * t
    IN IF frameSize < 0
       THEN [status |-> "length_error", frameSize |-> frameSize, wrapped |-> TRUE,
             rows |-> <<>>]
       ELSE [status |-> "ok", frameSize |-> frameSize, wrapped |-> FALSE,
             rows |-> [i \in 1..frameSize |->
                         IF (i - 1) % t = 0 THEN Concat(array, i, t, m)
                         ELSE [k \in 1..(Len(array[1]) * m) |-> 0]]]

\* toTimeEmbedding.  frameSize is an int; the vector constructor takes it as a
\* size_t, so a negative frameSize asks for 2^64 + frameSize rows (written
\* [wrapped |-> TRUE], the number itself being frameSize + 2^64) and the
\* constructor throws std::length_error instead of allocating.  Rows whose index the loop, stepping
\* by tau, never visits keep the zeros they were built with.
toTimeEmbedding(array, m, t) ==
  IF m = 1 THEN [status |-> "ok", frameSize |-> Len(array), wrapped |-> FALSE, rows |-> array]
  ELSE
    LET increment == m * t
        frameSize == Len(array) - increment
        yDim == Len(array[1]) * m
        zeroRow == [k \in 1..yDim |-> 0]
    IN IF frameSize < 0
       THEN [status |-> "length_error", frameSize |-> frameSize, wrapped |-> TRUE,
             rows |-> <<>>]
       ELSE [status |-> "ok", frameSize |-> frameSize, wrapped |-> FALSE,
             rows |-> [i \in 1..frameSize |->
                         IF (i - 1) % t = 0 THEN Concat(array, i, t, m)
                         ELSE zeroRow]]

\* lines 406-412: otiIndex of one frame of chromaA and one frame of chromaB
otiIndexOfPair(frameA, frameB, shifts) ==
  LET valueAtShifts == [k \in 1..(shifts + 1) |->
                          dotProduct(frameA, rotate(frameB, k - 1))]
  IN argmax(valueAtShifts)

\* chromaBinarySimMatrix.  Like optimalTranspositionIndex it rotates by every
\* shift 0..nshifts, which std::rotate defines only up to the number of bins.
chromaBinarySimMatrix(A, B, shifts, matchCoef, mismatchCoef) ==
  [i \in 1..Len(A) |->
    [j \in 1..Len(B) |->
      LET otiIdx == otiIndexOfPair(A[i], B[j], shifts)
      IN IF otiIdx = 0 \/ otiIdx = 1 THEN matchCoef ELSE mismatchCoef]]

mathcCoef == 1
mismatchCoef == 0

\* the coefficient lines 415-420 assign for an otiIndex
coefficientOf(otiIdx) == IF otiIdx = 0 \/ otiIdx = 1 THEN mathcCoef ELSE mismatchCoef

----------------------------------------------------------------------------
(* Distances, thresholds and the product of the two masks *)

\* essentia::pairwiseDistance keeps sqrt(a.a - 2 a.b + b.b); the model keeps the
\* number under the root.  An empty argument is refused with an exception
\* (see pairwiseDistanceFails).
pairwiseDistance(m, n) ==
  [i \in 1..Len(m) |->
    [j \in 1..Len(n) |->
      dotProduct(m[i], m[i]) - 2 * dotProduct(m[i], n[j]) + dotProduct(n[j], n[j])]]

pairwiseDistanceFails(m, n) == m = <<>> \/ n = <<>>

\* essentia::transpose
transpose(m) ==
  IF m = <<>> THEN <<>>
  ELSE [j \in 1..Len(m[1]) |-> [i \in 1..Len(m) |-> m[i][j]]]

\* std::sort of a row: the i-th smallest element
sorted(row) ==
  [i \in 1..Len(row) |->
    CHOOSE v \in {row[j] : j \in 1..Len(row)} :
      /\ Cardinality({j \in 1..Len(row) : row[j] < v}) < i
      /\ i <= Cardinality({j \in 1..Len(row) : row[j] <= v})]

\* p0*sqrt(a) + p1*sqrt(b) >= q*sqrt(c) for naturals, decided without roots
RootsAtLeast(p0, a, p1, b, q, c) ==
  LET rest == q * q * c - p0 * p0 * a - p1 * p1 * b
  IN rest <= 0 \/ 4 * p0 * p0 * p1 * p1 * a * b >= rest * rest

\* percentile(row, kappa*100) - row[c] >= 0, the test both thresholds end in.
\* The percentile is the kappa-quantile of the row by linear interpolation
\* between the two sorted neighbours of position (n-1)*kappa.
atOrBelowPercentile(row, c) ==
  LET n == Len(row)
      s == sorted(row)
      pos == (n - 1) * kappa.num
      lo == pos \div kappa.den
      frac == pos % kappa.den
      hi == IF frac = 0 THEN lo ELSE lo + 1
  IN RootsAtLeast(kappa.den - frac, s[lo + 1], frac, s[hi + 1], kappa.den, row[c])

\* similarityX of compute(): ones, or the thresholded and binarised distances
similarityXOf(pdistances, optimise) ==
  [k \in 1..Len(pdistances) |->
    [l \in 1..Len(pdistances[1]) |->
      IF optimise THEN 1
      ELSE IF atOrBelowPercentile(pdistances[k], l) THEN 1 ELSE 0]]

\* tSimilarityY with the two branches of lines 150-155 exchanged
tSimilarityYOfInverted(tpDistances) ==
  [j \in 1..Len(tpDistances[1]) |->
    [i \in 1..Len(tpDistances) |->
      IF atOrBelowPercentile(tpDistances[i], j) THEN 0 ELSE 1]]

\* tSimilarityY: the thresholded transposed distances, binarised and transposed back
tSimilarityYOf(tpDistances) ==
  [j \in 1..Len(tpDistances[1]) |->
    [i \in 1..Len(tpDistances) |->
      IF atOrBelowPercentile(tpDistances[i], j) THEN 1 ELSE 0]]

\* TNT::operator*(Array2D, Array2D): the entry-wise product of two arrays of the
\* same dimensions
arrayProduct(simX, simY) ==
  [i \in 1..Len(simX) |-> [j \in 1..Len(simX[1]) |-> simX[i][j] * simY[i][j]]]

----------------------------------------------------------------------------
(* standard::CrossSimilarityMatrix::compute *)

\* std::rotate(reference.begin(), reference.end() - otiIdx, reference.end()) is
\* undefined when otiIdx exceeds the number of frames: any order of the frames
\* may come out of it.
rotateOutcomes(reference, otiIdx) ==
  IF otiIdx <= Len(reference) THEN {rotate(reference, otiIdx)}
  ELSE {rotate(reference, j) : j \in 0..Len(reference)}

\* the outcome of compute(): the exception thrown or the matrix left in csm, with
\* the steps that ran and, in the distance branch, the locals the matrix was made of
Thrown(what, steps) ==
  [status |-> what, steps |-> steps, produced |-> FALSE, csm |-> <<>>,
   pdistances |-> <<>>, similarityX |-> <<>>, tSimilarityY |-> <<>>]
Returned(matrix, steps) ==
  [status |-> "ok", steps |-> steps, produced |-> TRUE, csm |-> matrix,
   pdistances |-> <<>>, similarityX |-> <<>>, tSimilarityY |-> <<>>]

\* the distance branch with csm = similarityX, the product of line 162 left out
distanceBranchQueryMaskOnly(query, reference, steps) ==
  LET timeEmbedA == toTimeEmbedding(query, embedDimension, tau)
      timeEmbedB == toTimeEmbedding(reference, embedDimension, tau)
  IN IF timeEmbedA.status # "ok" THEN Thrown(timeEmbedA.status, steps \o <<"embedA">>)
     ELSE IF timeEmbedB.status # "ok"
       THEN Thrown(timeEmbedB.status, steps \o <<"embedA", "embedB">>)
     ELSE IF pairwiseDistanceFails(timeEmbedA.rows, timeEmbedB.rows)
       THEN Thrown("EmptyResult", steps \o <<"embedA", "embedB", "pairwiseDistance">>)
     ELSE
       LET pdistances == pairwiseDistance(timeEmbedA.rows, timeEmbedB.rows)
           tpDistances == transpose(pdistances)
           similarityX == similarityXOf(pdistances, optimiseThreshold)
           tSimilarityY == tSimilarityYOf(tpDistances)
       IN [Returned(similarityX,
                    steps \o <<"embedA", "embedB", "pairwiseDistance", "threshold", "product">>)
             EXCEPT !.pdistances = pdistances, !.similarityX = similarityX,
                    !.tSimilarityY = tSimilarityY]

\* the distance branch of compute(), lines 101-163, on the rotated reference
distanceBranch(query, reference, steps) ==
  LET timeEmbedA == toTimeEmbedding(query, embedDimension, tau)
      timeEmbedB == toTimeEmbedding(reference, embedDimension, tau)
  IN IF timeEmbedA.status # "ok" THEN Thrown(timeEmbedA.status, steps \o <<"embedA">>)
     ELSE IF timeEmbedB.status # "ok"
       THEN Thrown(timeEmbedB.status, steps \o <<"embedA", "embedB">>)
     ELSE IF pairwiseDistanceFails(timeEmbedA.rows, timeEmbedB.rows)
       THEN Thrown("EmptyResult", steps \o <<"embedA", "embedB", "pairwiseDistance">>)
     ELSE
       LET pdistances == pairwiseDistance(timeEmbedA.rows, timeEmbedB.rows)
           tpDistances == transpose(pdistances)
           similarityX == similarityXOf(pdistances, optimiseThreshold)
           tSimilarityY == tSimilarityYOf(tpDistances)
       IN [Returned(arrayProduct(similarityX, tSimilarityY),
                    steps \o <<"embedA", "embedB", "pairwiseDistance", "threshold", "product">>)
             EXCEPT !.pdistances = pdistances, !.similarityX = similarityX,
                    !.tSimilarityY = tSimilarityY]

\* compute(), given the reference as the rotation of line 98 left it
computeNoReferenceCheck(query, reference, rotated) ==
  IF query = <<>> THEN Thrown("EmptyInput", <<>>)
  ELSE Returned([i \in 1..Len(query) |-> <<>>], <<"score">>)

compute(query, reference, rotated) ==
  IF query = <<>> THEN Thrown("EmptyInput", <<>>)
  ELSE IF reference = <<>> THEN Thrown("EmptyInput", <<>>)
  ELSE IF otiBinary THEN
    IF toBlocked THEN
      LET timeEmbedA == toTimeEmbedding(query, embedDimension, tau)
          timeEmbedB == toTimeEmbedding(reference, embedDimension, tau)
      IN IF timeEmbedA.status # "ok" THEN Thrown(timeEmbedA.status, <<"embedA">>)
         ELSE IF timeEmbedB.status # "ok"
           THEN Thrown(timeEmbedB.status, <<"embedA", "embedB">>)
         ELSE Returned(chromaBinarySimMatrix(query, reference, noti, mathcCoef, mismatchCoef),
                       <<"embedA", "embedB", "score">>)
    ELSE Returned(chromaBinarySimMatrix(query, reference, noti, mathcCoef, mismatchCoef),
                  <<"score">>)
  ELSE IF oti THEN distanceBranch(query, rotated, <<"oti", "rotate">>)
  ELSE distanceBranch(query, reference, <<>>)

InitBatch ==
  /\ tau \in 1..MaxTau
  /\ embedDimension \in 1..MaxEmbedDimension
  /\ noti \in 0..MaxNoti
  /\ oti \in BOOLEAN /\ otiBinary \in BOOLEAN
  /\ toBlocked \in BOOLEAN /\ optimiseThreshold \in BOOLEAN
  /\ kappa \in Kappas
  /\ queryFeature \in SeqsUpTo(Frames, 0, MaxBatchFrames)
  /\ batchReference \in SeqsUpTo(Frames, 0, MaxBatchFrames)
  /\ result = NoResult
  /\ EmbedIdle /\ StreamIdle /\ HelperIdle

\* one call of compute() on the inputs
Compute ==
  /\ result.status = "none"
  /\ \E rotated \in
         IF queryFeature # <<>> /\ batchReference # <<>> /\ ~otiBinary /\ oti
         THEN rotateOutcomes(batchReference,
                optimalTranspositionIndex(queryFeature, batchReference, noti))
         ELSE {batchReference} :
       result' = compute(queryFeature, batchReference, rotated)
  /\ UNCHANGED <<cfgVars, helperVars, embedVars, queryFeature, batchReference, streamVars>>

NextBatch == Compute

SpecBatch == InitBatch /\ [][NextBatch]_vars

\* compute() with one sequence as query and as reference, in the distance mode
\* without embedding and without OTI, for several values of kappa
InitSelf ==
  /\ tau \in 1..MaxTau
  /\ embedDimension = 1
  /\ noti = 0
  /\ oti = FALSE /\ otiBinary = FALSE /\ toBlocked = FALSE
  /\ optimiseThreshold \in BOOLEAN
  /\ kappa \in SelfKappas
  /\ queryFeature \in SeqsUpTo(SelfFrames, 1, MaxSelfFrames)
  /\ batchReference = queryFeature
  /\ result = NoResult
  /\ EmbedIdle /\ StreamIdle /\ HelperIdle

SpecSelf == InitSelf /\ [][NextBatch]_vars

----------------------------------------------------------------------------
(* streaming::CrossSimilarityMatrix *)

\* configure(), line 189
minFramesSize == embedDimension + 1

\* Algorithm::acquireData() on the query input: OK when the acquire size is
\* buffered, the no-input status otherwise (the output always has room for
\* its one token)
acquireData(available, size) == IF available >= size THEN "OK" ELSE "NO_INPUT"

\* vecvecToArray2D refuses a matrix without rows (an exception); one with rows
\* of no columns it converts, to an array of that many rows and no column
vecvecToArray2DFails(v) == v = <<>>

\* Algorithm::releaseData() on the query input: the buffer refuses, with an
\* exception, to release more tokens than were acquired
releaseDataFails(release, acquired) == release > acquired

\* the record of an invocation that acquired nothing
Unserved(status, retried) ==
  [status |-> status, available |-> Len(queryBuffer), acquire |-> acquireSize,
   release |-> releaseSize, stop |-> shouldStop, retried |-> retried,
   acquired |-> 0, window |-> <<>>, copy |-> <<>>, padReads |-> <<>>,
   otiIdx |-> 0, refUsed |-> <<>>, emitted |-> 0, released |-> 0]

\* line 206: the status of acquireData() goes back to the scheduler
SuspendThenShrink(status) ==
  /\ call' = Unserved(status, FALSE)
  /\ acquireSize' = Len(queryBuffer)
  /\ releaseSize' = Len(queryBuffer)
  /\ UNCHANGED <<queryBuffer, referenceFeature, csmOutput>>

Suspend(status) ==
  /\ call' = Unserved(status, FALSE)
  /\ UNCHANGED <<queryBuffer, acquireSize, releaseSize, referenceFeature, csmOutput>>

\* line 213: nothing left at the end of the stream
NoMoreInputAsOK ==
  /\ call' = Unserved("OK", FALSE)
  /\ UNCHANGED <<queryBuffer, acquireSize, releaseSize, referenceFeature, csmOutput>>

NoMoreInput ==
  /\ call' = Unserved("NO_INPUT", FALSE)
  /\ UNCHANGED <<queryBuffer, acquireSize, releaseSize, referenceFeature, csmOutput>>

\* lines 227-231: the C++ indices of inputQueryFrames the padding loop reads
padIndices(acquired) ==
  IF acquired < minFramesSize THEN [i \in 1..(minFramesSize - acquired) |-> i - 1]
  ELSE <<>>

\* inputQueryFrames[i] holds the acquired frames only: a read at i >= acquired
\* is a read past the window and may yield any frame
paddings(window) ==
  LET reads == padIndices(Len(window))
  IN {pad \in [1..Len(reads) -> Frames] :
        \A n \in 1..Len(reads) : reads[n] < Len(window) => pad[n] = window[reads[n] + 1]}

\* lines 242-282 : the matrix of one window, or the exception that ends the call
scoreWindow(queryTimeEmbed, referenceTimeEmbed) ==
  IF otiBinary
  THEN LET outputSimMatrix == chromaBinarySimMatrix(queryTimeEmbed, referenceTimeEmbed,
                                                    noti, mathcCoef, mismatchCoef)
       IN IF vecvecToArray2DFails(outputSimMatrix)
          THEN [status |-> "EmptyResult", matrix |-> <<>>]
          ELSE [status |-> "OK", matrix |-> outputSimMatrix]
  ELSE IF pairwiseDistanceFails(queryTimeEmbed, referenceTimeEmbed)
       THEN [status |-> "EmptyResult", matrix |-> <<>>]
       ELSE LET pdistances == pairwiseDistance(queryTimeEmbed, referenceTimeEmbed)
                tpDistances == transpose(pdistances)
                similarityX == similarityXOf(pdistances, TRUE)
                tSimilarityY == tSimilarityYOf(tpDistances)
            IN [status |-> "OK", matrix |-> arrayProduct(similarityX, tSimilarityY)]

\* lines 221-286 with `acquired' tokens acquired and `release' to release
Run(acquired, release, retried) ==
  \E window \in {SubSeq(queryBuffer, 1, acquired)} :
  \E pad \in paddings(window) :
  \E inputFramesCopy \in {window \o pad} :
  \E otiIdx \in {IF oti
                 THEN optimalTranspositionIndex(inputFramesCopy, referenceFeature, noti)
                 ELSE 0} :
  \E rotated \in (IF oti THEN rotateOutcomes(referenceFeature, otiIdx)
                  ELSE {referenceFeature}) :
  \E queryTimeEmbed \in {toTimeEmbedding(inputFramesCopy, embedDimension, tau)} :
  \E referenceTimeEmbed \in {toTimeEmbedding(rotated, embedDimension, tau)} :
  \E scored \in {IF queryTimeEmbed.status # "ok"
                   THEN [status |-> queryTimeEmbed.status, matrix |-> <<>>]
                 ELSE IF referenceTimeEmbed.status # "ok"
                   THEN [status |-> referenceTimeEmbed.status, matrix |-> <<>>]
                 ELSE scoreWindow(queryTimeEmbed.rows, referenceTimeEmbed.rows)} :
    LET status == IF scored.status = "OK" /\ releaseDataFails(release, acquired)
                  THEN "release_error" ELSE scored.status
        done == status = "OK"
    IN /\ referenceFeature' = rotated
       /\ acquireSize' = acquired
       /\ releaseSize' = release
       /\ csmOutput' = IF done THEN Append(csmOutput, scored.matrix) ELSE csmOutput
       /\ queryBuffer' = IF done
                         THEN SubSeq(queryBuffer, release + 1, Len(queryBuffer))
                         ELSE queryBuffer
       /\ call' = [status |-> status, available |-> Len(queryBuffer),
                   acquire |-> acquireSize, release |-> releaseSize,
                   stop |-> shouldStop, retried |-> retried,
                   acquired |-> acquired, window |-> window,
                   copy |-> inputFramesCopy, padReads |-> padIndices(acquired),
                   otiIdx |-> otiIdx, refUsed |-> rotated,
                   emitted |-> IF done THEN 1 ELSE 0,
                   released |-> IF done THEN release ELSE 0]

InitStream ==
  /\ tau \in 1..MaxStreamTau
  /\ embedDimension \in 1..MaxStreamEmbedDimension
  /\ noti \in 0..MaxNoti
  /\ oti \in BOOLEAN /\ otiBinary \in BOOLEAN
  \* the streaming algorithm declares neither toBlocked nor optimiseThreshold
  /\ toBlocked = FALSE /\ optimiseThreshold = FALSE
  /\ kappa \in Kappas
  /\ configuredReference \in References
  /\ referenceFeature = configuredReference
  /\ queryBuffer = <<>>
  /\ acquireSize = minFramesSize
  /\ releaseSize = tau
  /\ shouldStop = FALSE
  /\ csmOutput = <<>>
  /\ fed = 0
  /\ call = NoCall
  /\ EmbedIdle /\ BatchIdle /\ HelperIdle

\* upstream produces one more query frame
Feed ==
  /\ ~shouldStop
  /\ fed < MaxStreamFrames
  /\ \E frame \in Frames : queryBuffer' = Append(queryBuffer, frame)
  /\ fed' = fed + 1
  /\ UNCHANGED <<cfgVars, helperVars, embedVars, batchVars, referenceFeature, configuredReference,
                 acquireSize, releaseSize, shouldStop, csmOutput, call>>

\* upstream has no more frames: shouldStop() is true from now on
EndOfStream ==
  /\ ~shouldStop
  /\ shouldStop' = TRUE
  /\ UNCHANGED <<cfgVars, helperVars, embedVars, batchVars, referenceFeature, configuredReference,
                 queryBuffer, acquireSize, releaseSize, csmOutput, fed, call>>

\* process() releasing the whole window it acquired instead of releaseSize()
ProcessReleasingWindow ==
  /\ LET status == acquireData(Len(queryBuffer), acquireSize)
     IN IF status = "OK" THEN Run(acquireSize, acquireSize, FALSE)
        ELSE IF ~shouldStop THEN Suspend(status)
        ELSE IF Len(queryBuffer) = 0 THEN NoMoreInput
        ELSE Run(Len(queryBuffer), Len(queryBuffer), TRUE)
  /\ UNCHANGED <<cfgVars, helperVars, embedVars, batchVars, configuredReference, shouldStop, fed>>

\* one invocation of process() by the scheduler, the recursive retry included
Process ==
  /\ LET status == acquireData(Len(queryBuffer), acquireSize)
     IN IF status = "OK" THEN Run(acquireSize, releaseSize, FALSE)
        ELSE IF ~shouldStop THEN Suspend(status)
        ELSE IF Len(queryBuffer) = 0 THEN NoMoreInput
        ELSE Run(Len(queryBuffer), Len(queryBuffer), TRUE)
  /\ UNCHANGED <<cfgVars, helperVars, embedVars, batchVars, configuredReference, shouldStop, fed>>

NextStream == Feed \/ EndOfStream \/ Process

SpecStream == InitStream /\ [][NextStream]_vars

----------------------------------------------------------------------------
(* optimalTranspositionIndex and chromaBinarySimMatrix on their own *)

\* std::rotate(begin, end - k, end) is defined for k up to the size of the
\* vector; both functions call it with every k in 0..nshifts
rotateDefined(v, shifts) == shifts <= Len(v)

\* optimalTranspositionIndex: its return value, or, when a rotation is undefined
\* (memory outside chromaBcopy is swapped into it), any index or no return
optimalTranspositionIndexOutcomes(A, B, shifts) ==
  IF rotateDefined(B[1], shifts)
  THEN {[status |-> "ok", index |-> optimalTranspositionIndex(A, B, shifts)]}
  ELSE {[status |-> "ok", index |-> s] : s \in 0..shifts}
         \cup {[status |-> "crash", index |-> 0]}

\* chromaBinarySimMatrix: the matrix and the otiIndex of every pair of frames,
\* or, when a rotation is undefined, any otiIndex for each pair or no return
chromaBinarySimMatrixOutcomes(A, B, shifts) ==
  IF \A j \in 1..Len(B) : rotateDefined(B[j], shifts)
  THEN {[status |-> "ok",
         shifts |-> [i \in 1..Len(A) |-> [j \in 1..Len(B) |->
                       otiIndexOfPair(A[i], B[j], shifts)]],
         matrix |-> chromaBinarySimMatrix(A, B, shifts, mathcCoef, mismatchCoef)]}
  ELSE {[status |-> "ok", shifts |-> idx,
         matrix |-> [i \in 1..Len(A) |-> [j \in 1..Len(B) |-> coefficientOf(idx[i][j])]]] :
           idx \in [1..Len(A) -> [1..Len(B) -> 0..shifts]]}
         \cup {[status |-> "crash", shifts |-> <<>>, matrix |-> <<>>]}

InitHelper ==
  /\ tau = 1 /\ embedDimension = 1 /\ noti = 0
  /\ oti = FALSE /\ otiBinary = FALSE /\ toBlocked = FALSE /\ optimiseThreshold = FALSE
  /\ kappa = [num |-> 0, den |-> 1]
  /\ chromaA \in HelperSequences
  /\ chromaB \in HelperSequences
  /\ nshifts \in 0..MaxShifts
  /\ otiIndex = NoIndex
  /\ simMatrix = NoMatrix
  /\ EmbedIdle /\ BatchIdle /\ StreamIdle

CallOptimalTranspositionIndex ==
  /\ otiIndex.status = "none"
  /\ otiIndex' \in optimalTranspositionIndexOutcomes(chromaA, chromaB, nshifts)
  /\ UNCHANGED <<cfgVars, embedVars, batchVars, streamVars, chromaA, chromaB, nshifts,
                 simMatrix>>

CallChromaBinarySimMatrix ==
  /\ simMatrix.status = "none"
  /\ simMatrix' \in chromaBinarySimMatrixOutcomes(chromaA, chromaB, nshifts)
  /\ UNCHANGED <<cfgVars, embedVars, batchVars, streamVars, chromaA, chromaB, nshifts,
                 otiIndex>>

NextHelper == CallOptimalTranspositionIndex \/ CallChromaBinarySimMatrix

SpecHelper == InitHelper /\ [][NextHelper]_vars

----------------------------------------------------------------------------
(* toTimeEmbedding on its own *)

InitEmbed ==
  /\ tau \in 1..MaxTau
  /\ embedDimension \in 1..MaxEmbedDimension
  /\ noti = 0 /\ oti = FALSE /\ otiBinary = FALSE
  /\ toBlocked = FALSE /\ optimiseThreshold = FALSE /\ kappa = [num |-> 0, den |-> 1]
  /\ inputArray \in SeqsUpTo(Frames, 1, MaxFrames)
  /\ timeEmbedding = NoEmbedding
  /\ BatchIdle /\ StreamIdle /\ HelperIdle

CallToTimeEmbedding ==
  /\ timeEmbedding.status = "none"
  /\ timeEmbedding' = toTimeEmbedding(inputArray, embedDimension, tau)
  /\ UNCHANGED <<cfgVars, helperVars, inputArray, batchVars, streamVars>>

NextEmbed == CallToTimeEmbedding

SpecEmbed == InitEmbed /\ [][NextEmbed]_vars

----------------------------------------------------------------------------
(* Properties of compute() *)

Called == result.status # "none"

\* C1: with an empty query or an empty reference compute() throws the
\* empty-input exception before any OTI, embedding or scoring step has run,
\* and produces no matrix.
C1_EmptyInputFailsFirst ==
  (Called /\ (queryFeature = <<>> \/ batchReference = <<>>)) =>
     /\ result.status = "EmptyInput"
     /\ result.steps = <<>>
     /\ ~result.produced
     /\ result.csm = <<>>

C1_Witness ==
  /\ Called
  /\ queryFeature # <<>> /\ batchReference = <<>>
  /\ result.status = "EmptyInput"

EmbeddedLength(frames) ==
  IF embedDimension > 1 THEN frames - embedDimension * tau ELSE frames

\* C2 as stated: every matrix compute() returns has queryFrames - m*tau rows and
\* referenceFrames - m*tau columns when m > 1, queryFrames rows and
\* referenceFrames columns when m = 1, whatever the configuration.
C2_ShapeInEveryConfiguration ==
  result.produced =>
     /\ Len(result.csm) = EmbeddedLength(Len(queryFeature))
     /\ \A i \in 1..Len(result.csm) :
          Len(result.csm[i]) = EmbeddedLength(Len(batchReference))

\* C2 amended: the embedded shape is that of the distance mode (otiBinary
\* false); with otiBinary true the matrix has queryFrames rows and
\* referenceFrames columns for every embedDimension.
C2_ShapeByMode ==
  result.produced =>
     /\ Len(result.csm) =
          (IF otiBinary THEN Len(queryFeature) ELSE EmbeddedLength(Len(queryFeature)))
     /\ Len(result.csm) >= 1
     /\ \A i \in 1..Len(result.csm) :
          Len(result.csm[i]) =
            (IF otiBinary THEN Len(batchReference)
             ELSE EmbeddedLength(Len(batchReference)))

C2_Witness ==
  /\ result.produced
  /\ ~otiBinary /\ embedDimension = 2 /\ tau = 1
  /\ Len(queryFeature) = 3 /\ Len(batchReference) = 3
  /\ Len(result.csm) = 1 /\ Len(result.csm[1]) = 1

C15_ToBlockedMakesNoDifference ==
  (Called /\ otiBinary /\ queryFeature # <<>> /\ batchReference # <<>>) =>
     /\ result.produced
     /\ Len(result.csm) = Len(queryFeature)
     /\ \A i \in 1..Len(result.csm) : Len(result.csm[i]) = Len(batchReference)
     /\ result.csm =
          [i \in 1..Len(queryFeature) |-> [j \in 1..Len(batchReference) |->
             coefficientOf(otiIndexOfPair(queryFeature[i], batchReference[j], noti))]]

----------------------------------------------------------------------------
(* Properties of process() *)

Invoked == call.status # "none"

\* a step of the scheduler's invocation, as opposed to one of upstream
ProcessStep == fed' = fed /\ shouldStop' = shouldStop

\* C3: at the end of the stream with k frames left, 0 < k < acquire size, the
\* invocation shrinks acquire and release size to k, retries, emits exactly
\* one token for the k frames and releases all k of them; no invocation after
\* that (zero frames left) emits anything.
C3_FinalWindowProcessedOnce ==
  /\ (Invoked /\ call.stop /\ 0 < call.available /\ call.available < call.acquire) =>
        /\ call.retried
        /\ acquireSize = call.available /\ releaseSize = call.available
        /\ call.status = "OK"
        /\ call.emitted = 1
        /\ call.released = call.available
        /\ queryBuffer = <<>>
  /\ (Invoked /\ call.stop /\ call.available = 0) => call.emitted = 0

\* C4: an invocation that finds fewer frames than the acquire size before the
\* end of the stream returns the non-OK status of acquireData() and changes
\* neither the buffer, the acquire size, the release size, the held reference
\* nor the output.
C4_SuspendChangesNothing ==
  [][(ProcessStep /\ ~shouldStop /\ Len(queryBuffer) < acquireSize) =>
        /\ call'.status # "OK"
        /\ call'.status = acquireData(Len(queryBuffer), acquireSize)
        /\ call'.emitted = 0 /\ call'.released = 0
        /\ UNCHANGED <<queryBuffer, acquireSize, releaseSize, referenceFeature, csmOutput>>]_vars

C4_Witness ==
  /\ Invoked
  /\ ~call.stop /\ 0 < call.available /\ call.available < call.acquire
  /\ call.status = "NO_INPUT"
  /\ Len(queryBuffer) = call.available

\* what C5 says of an invocation at the end of the stream with nothing left
C5_NothingLeft ==
  (Invoked /\ call.stop /\ call.available = 0) =>
     /\ call.status = "NO_INPUT"
     /\ call.emitted = 0 /\ call.released = 0

\* C5 as stated: NO_INPUT at the end of the stream with zero frames available,
\* no token and no error; and NO_INPUT in no other situation.
C5_NoInputOnlyAtEnd ==
  /\ C5_NothingLeft
  /\ (Invoked /\ call.status = "NO_INPUT") => (call.stop /\ call.available = 0)

\* C5 amended: NO_INPUT is also the status a suspended invocation hands back,
\* so it is returned only when fewer frames than the acquire size are
\* buffered, and once the stream has ended only when no frame is left.
C5_NoInputOnlyWhenShort ==
  /\ C5_NothingLeft
  /\ (Invoked /\ call.status = "NO_INPUT") =>
        /\ call.available < call.acquire
        /\ call.emitted = 0 /\ call.released = 0
        /\ call.stop => call.available = 0

C5_Witness ==
  /\ Invoked /\ call.stop /\ call.available = 0
  /\ call.status = "NO_INPUT"
  /\ csmOutput # <<>>

\* C6: with k acquired frames, 1 <= k < minFramesSize, the padded copy has
\* minFramesSize frames, starts with the k acquired frames, and every frame
\* appended was read at an index 0..k-1 of the acquired window.
C6_PaddingReadsInsideWindow ==
  (Invoked /\ 1 <= call.acquired /\ call.acquired < minFramesSize) =>
     /\ Len(call.copy) = minFramesSize
     /\ SubSeq(call.copy, 1, call.acquired) = call.window
     /\ \A n \in 1..Len(call.padReads) :
          0 <= call.padReads[n] /\ call.padReads[n] <= call.acquired - 1

NonEmptyMatrix(matrix) ==
  Len(matrix) >= 1 /\ \A i \in 1..Len(matrix) : Len(matrix[i]) >= 1

EmbeddingEmpty(frames) == embedDimension > 1 /\ Len(frames) <= embedDimension * tau

\* C7: every matrix returned by compute() or emitted by process() has at least
\* one row and one column, and an invocation whose embedded query or embedded
\* reference is empty ends in an error.
C7_NoEmptyMatrix ==
  /\ result.produced => NonEmptyMatrix(result.csm)
  /\ \A n \in 1..Len(csmOutput) : NonEmptyMatrix(csmOutput[n])
  /\ (Invoked /\ call.acquired > 0
        /\ (EmbeddingEmpty(call.copy) \/ EmbeddingEmpty(call.refUsed))) =>
       call.status \notin {"OK", "NO_INPUT"}

\* C8: with oti, the reference a successful invocation embeds is the configured
\* reference rotated once by the OTI of that invocation.
C8_RotationDoesNotAccumulate ==
  (Invoked /\ oti /\ call.status = "OK" /\ call.otiIdx <= Len(configuredReference)) =>
     call.refUsed = rotate(configuredReference, call.otiIdx)

\* C16: before the end of the stream the n-th successful invocation processes
\* the embedDimension + 1 frames at the front of the buffer, which are the
\* frames at stream positions (n-1)*tau onwards, emits exactly one token and
\* then drops exactly tau frames from the front of the buffer.
C16_FramesInArrivalOrder ==
  /\ []((Invoked /\ ~call.stop /\ call.status = "OK") =>
          /\ call.acquired = embedDimension + 1
          /\ Len(call.window) = embedDimension + 1
          /\ call.emitted = 1
          /\ call.released = tau
          /\ (fed - Len(queryBuffer)) - call.released = (Len(csmOutput) - 1) * tau)
  /\ [][(ProcessStep /\ ~shouldStop /\ call'.status = "OK") =>
          /\ call'.window = SubSeq(queryBuffer, 1, embedDimension + 1)
          /\ queryBuffer' = SubSeq(queryBuffer, tau + 1, Len(queryBuffer))
          /\ Len(csmOutput') = Len(csmOutput) + 1]_vars

\* the second successful invocation, on the window that starts at position 2
C16_Witness ==
  /\ Invoked /\ ~call.stop /\ call.status = "OK"
  /\ tau = 2 /\ embedDimension = 1
  /\ Len(csmOutput) = 2
  /\ fed = 4 /\ queryBuffer = <<>>
  /\ call.released = 2

\* C17: every invocation returns OK or NO_INPUT; once the stream has ended an
\* invocation that does not return NO_INPUT on an empty buffer emits one token
\* and shortens the buffer, so that after finitely many invocations the
\* scheduler gets NO_INPUT; there are never more tokens than frames were fed.
C17_SchedulerReachesNoMoreInput ==
  /\ Invoked => call.status \in {"OK", "NO_INPUT"}
  /\ (Invoked /\ call.stop) =>
        \/ call.status = "NO_INPUT" /\ call.available = 0
        \/ call.status = "OK" /\ call.emitted = 1 /\ call.released >= 1
              /\ Len(queryBuffer) < call.available
  /\ Len(csmOutput) <= fed

\* C18: whenever an invocation reaches releaseData(), the release size of the
\* query input is at most the number of frames the invocation acquired.
C18_ReleaseWithinAcquired ==
  (Invoked /\ call.status \in {"OK", "release_error"}) =>
     /\ releaseSize <= call.acquired
     /\ releaseSize <= acquireSize

----------------------------------------------------------------------------
(* Properties of toTimeEmbedding *)

Embedded == timeEmbedding.status # "none"

\* C9: for m > 1 every row i of the result is input rows i, i+tau, ...,
\* i+(m-1)*tau joined, and the call returns such a result for m=2, tau=1 and
\* for m=3, tau=2 on a sequence of 5 rows.
C9_RowsAreConcatenations ==
  (Embedded /\ embedDimension > 1) =>
     /\ timeEmbedding.status = "ok" =>
          \A i \in 1..Len(timeEmbedding.rows) :
            timeEmbedding.rows[i] = Concat(inputArray, i, tau, embedDimension)
     /\ (Len(inputArray) = 5 /\ <<embedDimension, tau>> \in {<<2, 1>>, <<3, 2>>}) =>
          timeEmbedding.status = "ok"

\* C10: for m > 1 and fewer than m*tau input frames the call ends with an
\* empty result (or the invalid-input error), never asks for a result of
\* negative or wrapped-around length and never returns rows.
C10_ShortInputFailsCleanly ==
  (Embedded /\ embedDimension > 1 /\ Len(inputArray) < embedDimension * tau) =>
     /\ timeEmbedding.status \in {"ok", "InvalidInput"}
     /\ timeEmbedding.frameSize >= 0
     /\ ~timeEmbedding.wrapped
     /\ timeEmbedding.rows = <<>>

----------------------------------------------------------------------------
(* Properties of chromaBinarySimMatrix and optimalTranspositionIndex *)

Scored == simMatrix.status # "none"

\* s is the first of the shifts 0..shifts with the greatest of the values
FirstMaximum(s, value, shifts) ==
  /\ s \in 0..shifts
  /\ \A k \in 0..shifts : value[k] <= value[s]
  /\ \A k \in 0..(s - 1) : value[k] < value[s]

\* v turned right by s positions: what was at position p is at position p + s
RotatedRight(v, s) == [q \in 1..Len(v) |-> v[((q - 1 - s) % Len(v)) + 1]]

\* v turned left by s positions: what was at position p + s is at position p
RotatedLeft(v, s) == [q \in 1..Len(v) |-> v[((q - 1 + s) % Len(v)) + 1]]

\* C13: for every nshifts >= 0 the call returns a matrix in which every pair of
\* identical frames has arg-max shift 0 and entry matchCoef, and every entry is
\* matchCoef exactly when the first maximum over the shifts 0..nshifts is at
\* shift 0 or 1, mismatchCoef otherwise.
C13_IdenticalFramesMatch ==
  Scored =>
    /\ simMatrix.status = "ok"
    /\ \A i \in 1..Len(chromaA) : \A j \in 1..Len(chromaB) :
         /\ chromaA[i] = chromaB[j] =>
               simMatrix.shifts[i][j] = 0 /\ simMatrix.matrix[i][j] = mathcCoef
         /\ simMatrix.matrix[i][j] =
               (IF simMatrix.shifts[i][j] \in {0, 1} THEN mathcCoef ELSE mismatchCoef)
         /\ FirstMaximum(simMatrix.shifts[i][j],
                         [k \in 0..nshifts |->
                            dotProduct(chromaA[i], RotatedRight(chromaB[j], k))],
                         nshifts)
Indexed == otiIndex.status # "none"

\* the sums of the bins over the frames of a sequence: the global vector, up to
\* the positive factor of its normalisation
GlobalVector(sequence) ==
  [j \in 1..Len(sequence[1]) |-> ColumnSum(sequence, j, Len(sequence))]

====
